---- MODULE Spec2Model ----
(***************************************************************************)
(* Traffic-light control core of smart_traffic_system.c: the TrafficSystem *)
(* struct, controlLights with its static lastChange, adjustTiming,         *)
(* updateSensors and the emergency flag written by main, and the two       *)
(* threads of the program: sensorThread and the loop of main.              *)
(***************************************************************************)
EXTENDS Integers, FiniteSets, Sequences, TLC

\* ---------------------------------------------------------------- enums
\* typedef enum {NORTH, SOUTH, EAST, WEST} Direction;
NORTH == 0
SOUTH == 1
EAST == 2
WEST == 3
Direction == {NORTH, SOUTH, EAST, WEST}

\* typedef enum {RED, GREEN, YELLOW} LightState;
RED == 0
GREEN == 1
YELLOW == 2
LightState == {RED, GREEN, YELLOW}

\* ---------------------------------------------------------------- configuration
\* The four timing fields are written once, by initializeSystem, and never again.
greenDuration == 30
yellowDuration == 5
minGreenTime == 10
maxGreenTime == 60

\* ---------------------------------------------------------------- bounds
\* The clock is read in whole seconds; the model follows it up to MaxTime.
MaxTime == 60
\* Where detection timestamps are followed, the clock runs up to MaxStampTime.
MaxStampTime == 2
\* Configurations other than initializeSystem's: each of the three green-time
\* fields is ConfigUnit * k seconds for some k in 1..MaxConfigSteps.
ConfigUnit == 5
MaxConfigSteps == 12

\* ---------------------------------------------------------------- state
VARIABLES
    lights,             \* system->lights[i].state
    duration,           \* system->lights[i].duration
    sensors,            \* system->sensors[i].vehicleDetected
    emergencyMode,      \* system->emergencyMode
    lastChange,         \* static time_t lastChange of controlLights
    now,                \* the value time(NULL) returns
    emergencyObserved,  \* history: the last controlLights call took the emergency override
    config,             \* system->greenDuration, yellowDuration, minGreenTime, maxGreenTime
    detectionTime,      \* system->sensors[i].detectionTime
    sensorI,            \* sensorThread: the loop variable i; 4 while it sleeps
    sensorPc,           \* sensorThread inside updateSensors: "flag" before line 64,
                        \* "stamp" between line 64 and line 66
    mainPc,             \* main: the statement of its loop it is at
    passDone,           \* history: sensorThread has finished a pass over all four sensors
    snapshotMixed       \* history: the last adjustTiming call ran while a pass had
                        \* rewritten some sensors and not yet the others

vars == <<lights, duration, sensors, emergencyMode, lastChange, now, emergencyObserved,
          config, detectionTime, sensorI, sensorPc, mainPc, passDone, snapshotMixed>>

\* What the control path of the free-running specifications never touches.
threadVars == <<sensorI, sensorPc, mainPc, passDone>>

\* ---------------------------------------------------------------- adjustTiming
calculateDensity(sens, primary, secondary) ==
    (IF sens[primary] THEN 3 ELSE 0) + (IF sens[secondary] THEN 3 ELSE 0)

\* Mutant: the upper limit compared with >= and set one short.
ClampDurationShort(d) ==
    LET lo == IF d < config.minGreenTime THEN config.minGreenTime ELSE d
    IN  IF lo >= config.maxGreenTime THEN config.maxGreenTime - 1 ELSE lo

\* The two ifs of the "Ensure within min/max limits" loop, in the code's order.
ClampDuration(d) ==
    LET lo == IF d < config.minGreenTime THEN config.minGreenTime ELSE d
    IN  IF lo > config.maxGreenTime THEN config.maxGreenTime ELSE lo

\* Mutant: the density margin 2 instead of 4, so one detection tips the timing.
adjustTimingMargin2(sens) ==
    LET nsDensity == calculateDensity(sens, NORTH, SOUTH)
        ewDensity == calculateDensity(sens, EAST, WEST)
        baseTime == config.greenDuration
        raw == IF nsDensity > ewDensity + 2
                 THEN [i \in Direction |->
                         IF i \in {NORTH, SOUTH} THEN baseTime + 15 ELSE baseTime - 10]
               ELSE IF ewDensity > nsDensity + 2
                 THEN [i \in Direction |->
                         IF i \in {EAST, WEST} THEN baseTime + 15 ELSE baseTime - 10]
               ELSE [i \in Direction |-> baseTime]
    IN  [i \in Direction |-> ClampDuration(raw[i])]

\* Every branch assigns all four durations, so the result depends only on the
\* sensors and the configuration.
adjustTiming(sens) ==
    LET nsDensity == calculateDensity(sens, NORTH, SOUTH)
        ewDensity == calculateDensity(sens, EAST, WEST)
        baseTime == config.greenDuration
        raw == IF nsDensity > ewDensity + 4
                 THEN [i \in Direction |->
                         IF i \in {NORTH, SOUTH} THEN baseTime + 15 ELSE baseTime - 10]
               ELSE IF ewDensity > nsDensity + 4
                 THEN [i \in Direction |->
                         IF i \in {EAST, WEST} THEN baseTime + 15 ELSE baseTime - 10]
               ELSE [i \in Direction |-> baseTime]
    IN  [i \in Direction |-> ClampDuration(raw[i])]

\* ---------------------------------------------------------------- controlLights
\* "Find active green light": the first index whose light is GREEN, else -1.
ActiveGreen(l) ==
    IF \E i \in Direction : l[i] = GREEN
      THEN CHOOSE i \in Direction :
             l[i] = GREEN /\ \A j \in Direction : j < i => l[j] # GREEN
      ELSE -1

\* Mutant: the override without its two GREEN assignments.
EmergencyOverrideAllRed(l) ==
    [i \in Direction |-> RED]

\* Mutant: the override without its loop setting all four RED.
EmergencyOverrideNoReset(l) ==
    [i \in Direction |-> IF i \in {NORTH, SOUTH} THEN GREEN ELSE l[i]]

\* "Emergency mode override": all four RED, then NORTH and SOUTH GREEN.
EmergencyOverride(l) ==
    [i \in Direction |-> IF i \in {NORTH, SOUTH} THEN GREEN ELSE RED]

\* Mutant: > for >= in the elapsed-time test.
NeedChangeStrict(activeGreen, elapsed, dur) ==
    activeGreen = -1 \/ elapsed > dur[activeGreen]

\* "Check if need to change lights".
NeedChange(activeGreen, elapsed, dur) ==
    activeGreen = -1 \/ elapsed >= dur[activeGreen]

\* Mutant: the conditional dropped, the second assignment repeats the first.
YellowPartnerSelf(activeGreen) ==
    activeGreen

\* The index of the second light set YELLOW: activeGreen == NORTH ? SOUTH : activeGreen.
YellowPartner(activeGreen) ==
    IF activeGreen = NORTH THEN SOUTH ELSE activeGreen

\* "Switch to yellow before changing".
SwitchToYellow(l, activeGreen) ==
    [i \in Direction |->
        IF i = activeGreen \/ i = YellowPartner(activeGreen) THEN YELLOW ELSE l[i]]

\* Mutant: the NORTH-SOUTH branch writes GREEN to EAST and WEST too.
SwitchToNextGreenAllGreen(l, activeGreen) ==
    IF activeGreen = NORTH \/ activeGreen = SOUTH
      THEN [i \in Direction |-> IF i \in {EAST, WEST} THEN GREEN ELSE RED]
      ELSE [i \in Direction |-> GREEN]

\* Mutant: the test of the branch inverted.
SwitchToNextGreenInverted(l, activeGreen) ==
    IF ~(activeGreen = NORTH \/ activeGreen = SOUTH)
      THEN [i \in Direction |-> IF i \in {EAST, WEST} THEN GREEN ELSE RED]
      ELSE [i \in Direction |-> IF i \in {NORTH, SOUTH} THEN GREEN ELSE RED]

\* "Switch to next green light".
SwitchToNextGreen(l, activeGreen) ==
    IF activeGreen = NORTH \/ activeGreen = SOUTH
      THEN [i \in Direction |-> IF i \in {EAST, WEST} THEN GREEN ELSE RED]
      ELSE [i \in Direction |-> IF i \in {NORTH, SOUTH} THEN GREEN ELSE RED]

\* Mutant: adjustTiming called on the switch to yellow as well.
ControlLightsResultAdjustOnYellow(l, dur, lc, sens, em, currentTime) ==
    LET elapsed == currentTime - lc
        activeGreen == ActiveGreen(l)
    IN  IF em
          THEN [lights |-> EmergencyOverride(l), duration |-> dur, lastChange |-> lc]
        ELSE IF NeedChange(activeGreen, elapsed, dur)
          THEN IF activeGreen # -1 /\ l[activeGreen] = GREEN
                 THEN [lights |-> SwitchToYellow(l, activeGreen),
                       duration |-> adjustTiming(sens), lastChange |-> currentTime]
                 ELSE [lights |-> SwitchToNextGreen(l, activeGreen),
                       duration |-> adjustTiming(sens), lastChange |-> currentTime]
        ELSE [lights |-> l, duration |-> dur, lastChange |-> lc]

\* Mutant: adjustTiming called in the emergency branch before its return.
ControlLightsResultEmergencyAdjust(l, dur, lc, sens, em, currentTime) ==
    LET elapsed == currentTime - lc
        activeGreen == ActiveGreen(l)
    IN  IF em
          THEN [lights |-> EmergencyOverride(l), duration |-> adjustTiming(sens),
                lastChange |-> lc]
        ELSE IF NeedChange(activeGreen, elapsed, dur)
          THEN IF activeGreen # -1 /\ l[activeGreen] = GREEN
                 THEN [lights |-> SwitchToYellow(l, activeGreen),
                       duration |-> dur, lastChange |-> currentTime]
                 ELSE [lights |-> SwitchToNextGreen(l, activeGreen),
                       duration |-> adjustTiming(sens), lastChange |-> currentTime]
        ELSE [lights |-> l, duration |-> dur, lastChange |-> lc]

\* Mutant: lastChange = currentTime moved out of the if, written by every
\* call that gets past the emergency branch.
ControlLightsResultAlwaysRestart(l, dur, lc, sens, em, currentTime) ==
    LET elapsed == currentTime - lc
        activeGreen == ActiveGreen(l)
    IN  IF em
          THEN [lights |-> EmergencyOverride(l), duration |-> dur, lastChange |-> lc]
        ELSE IF NeedChange(activeGreen, elapsed, dur)
          THEN IF activeGreen # -1 /\ l[activeGreen] = GREEN
                 THEN [lights |-> SwitchToYellow(l, activeGreen),
                       duration |-> dur, lastChange |-> currentTime]
                 ELSE [lights |-> SwitchToNextGreen(l, activeGreen),
                       duration |-> adjustTiming(sens), lastChange |-> currentTime]
        ELSE [lights |-> l, duration |-> dur, lastChange |-> currentTime]

\* One call of controlLights at clock value currentTime: the lights, the
\* durations and the static lastChange it leaves behind.
ControlLightsResult(l, dur, lc, sens, em, currentTime) ==
    LET elapsed == currentTime - lc
        activeGreen == ActiveGreen(l)
    IN  IF em
          THEN [lights |-> EmergencyOverride(l), duration |-> dur, lastChange |-> lc]
        ELSE IF NeedChange(activeGreen, elapsed, dur)
          THEN IF activeGreen # -1 /\ l[activeGreen] = GREEN
                 THEN [lights |-> SwitchToYellow(l, activeGreen),
                       duration |-> dur, lastChange |-> currentTime]
                 ELSE [lights |-> SwitchToNextGreen(l, activeGreen),
                       duration |-> adjustTiming(sens), lastChange |-> currentTime]
        ELSE [lights |-> l, duration |-> dur, lastChange |-> lc]

\* Whether that call gets as far as its call of adjustTiming.
RunsAdjustTiming(l, dur, lc, em, currentTime) ==
    LET activeGreen == ActiveGreen(l)
    IN  /\ ~em
        /\ NeedChange(activeGreen, currentTime - lc, dur)
        /\ ~(activeGreen # -1 /\ l[activeGreen] = GREEN)

\* The sensors the running pass of sensorThread has rewritten so far.
WrittenThisPass ==
    {d \in Direction : d < sensorI} \cup (IF sensorPc = "stamp" THEN {sensorI} ELSE {})

\* A call of controlLights, by whichever caller.
controlLightsCall ==
    LET r == ControlLightsResult(lights, duration, lastChange, sensors, emergencyMode, now)
    IN  /\ lights' = r.lights
        /\ duration' = r.duration
        /\ lastChange' = r.lastChange
        /\ emergencyObserved' = emergencyMode
        /\ snapshotMixed' =
             IF RunsAdjustTiming(lights, duration, lastChange, emergencyMode, now)
               THEN passDone /\ WrittenThisPass \notin {{}, Direction}
               ELSE snapshotMixed
        /\ UNCHANGED <<sensors, detectionTime, emergencyMode, now, config>>

controlLights ==
    /\ controlLightsCall
    /\ UNCHANGED threadVars

\* ---------------------------------------------------------------- the environment
\* Mutant: the timestamp written without the test of detected.
updateSensorsAlwaysStamp(dir, detected) ==
    /\ sensors' = [sensors EXCEPT ![dir] = detected]
    /\ detectionTime' = [detectionTime EXCEPT ![dir] = now]
    /\ UNCHANGED <<lights, duration, emergencyMode, lastChange, now, emergencyObserved,
                   config, snapshotMixed>>
    /\ UNCHANGED threadVars

\* updateSensors(system, dir, detected), the whole call in one step.
updateSensors(dir, detected) ==
    /\ sensors' = [sensors EXCEPT ![dir] = detected]
    /\ detectionTime' = IF detected THEN [detectionTime EXCEPT ![dir] = now]
                                    ELSE detectionTime
    /\ UNCHANGED <<lights, duration, emergencyMode, lastChange, now, emergencyObserved,
                   config, snapshotMixed>>
    /\ UNCHANGED threadVars

\* Line 64 of updateSensors alone. detectionTime is written by updateSensors
\* and read by nothing in the program, so the specifications that follow the
\* control path through a whole green phase follow the presence flags only.
updatePresence(dir, detected) ==
    /\ sensors' = [sensors EXCEPT ![dir] = detected]
    /\ UNCHANGED <<lights, duration, emergencyMode, lastChange, now, emergencyObserved,
                   config, detectionTime, snapshotMixed>>
    /\ UNCHANGED threadVars

\* main: system.emergencyMode = true;
ActivateEmergency ==
    /\ ~emergencyMode
    /\ emergencyMode' = TRUE
    /\ UNCHANGED <<lights, duration, sensors, lastChange, now, emergencyObserved,
                   config, detectionTime, snapshotMixed>>
    /\ UNCHANGED threadVars

\* main: system.emergencyMode = false;
DeactivateEmergency ==
    /\ emergencyMode
    /\ emergencyMode' = FALSE
    /\ UNCHANGED <<lights, duration, sensors, lastChange, now, emergencyObserved,
                   config, detectionTime, snapshotMixed>>
    /\ UNCHANGED threadVars

\* sleep(1): the clock moves on by a second.
Advance ==
    /\ now < MaxTime
    /\ now' = now + 1
    /\ UNCHANGED <<lights, duration, sensors, emergencyMode, lastChange, emergencyObserved,
                   config, detectionTime, snapshotMixed>>
    /\ UNCHANGED threadVars

\* The same second, in the specifications that follow detection timestamps.
AdvanceShort ==
    /\ now < MaxStampTime
    /\ now' = now + 1
    /\ UNCHANGED <<lights, duration, sensors, emergencyMode, lastChange, emergencyObserved,
                   config, detectionTime, snapshotMixed>>
    /\ UNCHANGED threadVars

\* ---------------------------------------------------------------- the two threads
\* What the steps of sensorThread leave alone.
controlVars == <<lights, duration, emergencyMode, lastChange, now, emergencyObserved,
                 config, snapshotMixed, mainPc>>

\* sensorThread: line 64 of updateSensors(system, i, detected), detected being
\* rand() % 5 == 0. A false reading ends the call and the loop moves on.
sensorWriteFlag(detected) ==
    /\ sensorI < 4
    /\ sensorPc = "flag"
    /\ sensors' = [sensors EXCEPT ![sensorI] = detected]
    /\ IF detected
         THEN sensorPc' = "stamp" /\ UNCHANGED <<sensorI, passDone>>
         ELSE /\ sensorPc' = "flag"
              /\ sensorI' = sensorI + 1
              /\ passDone' = (passDone \/ sensorI = 3)
    /\ UNCHANGED detectionTime
    /\ UNCHANGED controlVars

\* sensorThread: line 66 of updateSensors, after a true reading.
sensorStamp ==
    /\ sensorPc = "stamp"
    /\ detectionTime' = [detectionTime EXCEPT ![sensorI] = now]
    /\ sensorPc' = "flag"
    /\ sensorI' = sensorI + 1
    /\ passDone' = (passDone \/ sensorI = 3)
    /\ UNCHANGED sensors
    /\ UNCHANGED controlVars

\* sensorThread: sleep(1) after the pass, then the next pass.
sensorSleep ==
    /\ sensorI = 4
    /\ sensorI' = 0
    /\ UNCHANGED <<sensors, detectionTime, sensorPc, passDone>>
    /\ UNCHANGED controlVars

\* What the steps of main other than controlLights leave alone.
systemVars == <<lights, duration, sensors, lastChange, now, emergencyObserved,
                config, detectionTime, snapshotMixed, sensorI, sensorPc, passDone>>

\* main: controlLights(&system); displayStatus(&system);
mainControlLights ==
    /\ mainPc = "control"
    /\ controlLightsCall
    /\ mainPc' = "rand"
    /\ UNCHANGED <<sensorI, sensorPc, passDone>>

\* main: rand() % 20 != 0, no emergency this round.
mainNoEmergency ==
    /\ mainPc = "rand"
    /\ mainPc' = "sleep"
    /\ UNCHANGED emergencyMode
    /\ UNCHANGED systemVars

\* main: rand() % 20 == 0: system.emergencyMode = true; then sleep(5).
mainEmergencyOn ==
    /\ mainPc = "rand"
    /\ emergencyMode' = TRUE
    /\ mainPc' = "emergency"
    /\ UNCHANGED systemVars

\* main: after sleep(5), system.emergencyMode = false;
mainEmergencyOff ==
    /\ mainPc = "emergency"
    /\ emergencyMode' = FALSE
    /\ mainPc' = "sleep"
    /\ UNCHANGED systemVars

\* main: sleep(1), and round the loop again.
mainSleep ==
    /\ mainPc = "sleep"
    /\ mainPc' = "control"
    /\ UNCHANGED emergencyMode
    /\ UNCHANGED systemVars

\* The same second passing with no end to the clock: controlLights reads the
\* clock only through currentTime - lastChange, so at MaxTime both timestamps
\* are read one second earlier instead, and an elapsed time of MaxTime or more
\* (at least every duration the clamp allows) stays MaxTime.
AdvanceForever ==
    /\ IF now < MaxTime
         THEN now' = now + 1 /\ lastChange' = lastChange
         ELSE now' = now /\ lastChange' = (IF lastChange > 0 THEN lastChange - 1 ELSE 0)
    /\ UNCHANGED <<lights, duration, sensors, emergencyMode, emergencyObserved,
                   config, detectionTime, snapshotMixed>>
    /\ UNCHANGED threadVars

\* ---------------------------------------------------------------- specification
\* The configuration initializeSystem writes.
DefaultConfig ==
    [greenDuration |-> greenDuration, yellowDuration |-> yellowDuration,
     minGreenTime |-> minGreenTime, maxGreenTime |-> maxGreenTime]

\* Both threads at the top of their loops, nothing observed yet.
InitThreads ==
    /\ sensorI = 0
    /\ sensorPc = "flag"
    /\ mainPc = "control"
    /\ passDone = FALSE
    /\ snapshotMixed = FALSE

\* initializeSystem, and the initial value of the static lastChange.
Init ==
    /\ config = DefaultConfig
    /\ detectionTime = [i \in Direction |-> 0]
    /\ InitThreads
    /\ lights = [i \in Direction |-> RED]
    /\ duration = [i \in Direction |-> 0]
    /\ sensors = [i \in Direction |-> FALSE]
    /\ emergencyMode = FALSE
    /\ lastChange = 0
    /\ now = 0
    /\ emergencyObserved = FALSE

Next ==
    \/ controlLights
    \/ \E dir \in Direction, detected \in BOOLEAN : updatePresence(dir, detected)
    \/ ActivateEmergency
    \/ DeactivateEmergency
    \/ Advance

Spec == Init /\ [][Next]_vars

\* controlLights handed a TrafficSystem whose lights and durations the caller
\* has set: each axis in any of the three light states, durations as
\* initializeSystem or some adjustTiming call leaves them.
InitAnyPhase ==
    /\ config = DefaultConfig
    /\ detectionTime = [i \in Direction |-> 0]
    /\ InitThreads
    /\ lights \in {l \in [Direction -> LightState] :
                      l[NORTH] = l[SOUTH] /\ l[EAST] = l[WEST]}
    /\ duration \in {[i \in Direction |-> 0]}
                      \cup {adjustTiming(s) : s \in [Direction -> BOOLEAN]}
    /\ sensors = [i \in Direction |-> FALSE]
    /\ emergencyMode = FALSE
    /\ lastChange = 0
    /\ now = 0
    /\ emergencyObserved = FALSE

SpecAnyPhase == InitAnyPhase /\ [][Next]_vars

\* The main loop with the emergency flag never set: while (1) { controlLights;
\* sleep(1); } calls controlLights again and again while the clock runs on.
NextNormal ==
    \/ controlLights
    \/ \E dir \in Direction, detected \in BOOLEAN : updatePresence(dir, detected)
    \/ AdvanceForever

FairSpec ==
    Init /\ [][NextNormal]_vars /\ WF_vars(controlLights) /\ WF_vars(AdvanceForever)

\* adjustTiming called on its own.
adjustTimingCall ==
    /\ duration' = adjustTiming(sensors)
    /\ UNCHANGED <<lights, sensors, emergencyMode, lastChange, now, emergencyObserved,
                   config, detectionTime, snapshotMixed>>
    /\ UNCHANGED threadVars

\* The configurations 0 < minGreenTime <= greenDuration <= maxGreenTime over
\* the values ConfigUnit, 2 * ConfigUnit, ..., MaxConfigSteps * ConfigUnit.
ConfigValues == {ConfigUnit * k : k \in 1..MaxConfigSteps}
Configs ==
    {c \in [greenDuration : ConfigValues, yellowDuration : {yellowDuration},
             minGreenTime : ConfigValues, maxGreenTime : ConfigValues] :
        c.minGreenTime <= c.greenDuration /\ c.greenDuration <= c.maxGreenTime}

\* initializeSystem followed by the caller's own configuration.
InitPolicy ==
    /\ config \in Configs
    /\ detectionTime = [i \in Direction |-> 0]
    /\ InitThreads
    /\ lights = [i \in Direction |-> RED]
    /\ duration = [i \in Direction |-> 0]
    /\ sensors = [i \in Direction |-> FALSE]
    /\ emergencyMode = FALSE
    /\ lastChange = 0
    /\ now = 0
    /\ emergencyObserved = FALSE

\* The two writers of the durations, adjustTiming on its own and through
\* controlLights, under every sensor snapshot.
NextPolicy ==
    \/ adjustTimingCall
    \/ controlLights
    \/ \E dir \in Direction, detected \in BOOLEAN : updatePresence(dir, detected)

PolicySpec == InitPolicy /\ [][NextPolicy]_vars

\* The handlers called in any order, detection timestamps followed.
NextStamp ==
    \/ controlLights
    \/ \E dir \in Direction, detected \in BOOLEAN : updateSensors(dir, detected)
    \/ ActivateEmergency
    \/ DeactivateEmergency
    \/ AdvanceShort

StampSpec == Init /\ [][NextStamp]_vars

\* The program as main starts it: sensorThread and the loop of main, their
\* statements interleaved in any order, neither thread taking a lock.
NextThreads ==
    \/ \E detected \in BOOLEAN : sensorWriteFlag(detected)
    \/ sensorStamp
    \/ sensorSleep
    \/ mainControlLights
    \/ mainNoEmergency
    \/ mainEmergencyOn
    \/ mainEmergencyOff
    \/ mainSleep
    \/ AdvanceShort

ThreadSpec == Init /\ [][NextThreads]_vars

\* ---------------------------------------------------------------- phases
NSState(s) == lights[NORTH] = s /\ lights[SOUTH] = s
EWState(s) == lights[EAST] = s /\ lights[WEST] = s
NS_GREEN == NSState(GREEN) /\ EWState(RED)
NS_YELLOW == NSState(YELLOW) /\ EWState(RED)
EW_GREEN == EWState(GREEN) /\ NSState(RED)
EW_YELLOW == EWState(YELLOW) /\ NSState(RED)
NSNonRed == lights[NORTH] # RED \/ lights[SOUTH] # RED
EWNonRed == lights[EAST] # RED \/ lights[WEST] # RED

TypeOK ==
    /\ lights \in [Direction -> LightState]
    /\ duration \in [Direction -> 0..config.maxGreenTime]
    /\ sensors \in [Direction -> BOOLEAN]
    /\ emergencyMode \in BOOLEAN
    /\ lastChange \in 0..MaxTime
    /\ now \in 0..MaxTime
    /\ lastChange <= now
    /\ emergencyObserved \in BOOLEAN
    /\ config \in Configs
    /\ detectionTime \in [Direction -> 0..MaxTime]
    /\ sensorI \in 0..4
    /\ sensorPc \in {"flag", "stamp"}
    /\ mainPc \in {"control", "rand", "emergency", "sleep"}
    /\ passDone \in BOOLEAN
    /\ snapshotMixed \in BOOLEAN

\* The state a call of controlLights leaves, as the record ControlLightsResult gives.
ControlState(l, dur, lc) == [lights |-> l, duration |-> dur, lastChange |-> lc]
Elapsed == now - lastChange
ExactlyOneAxisNonRed == (NSNonRed /\ ~EWNonRed) \/ (EWNonRed /\ ~NSNonRed)

\* ---------------------------------------------------------------- C1
\* C1: in every state reachable from initializeSystem, a light of the NS axis
\* and a light of the EW axis are never both non-Red.
C1_NoConflictingAxes == ~(NSNonRed /\ EWNonRed)

\* NS is Yellow after a green phase with computed durations, under a sensor
\* reading, with EW Red.
C1_Witness ==
    /\ NS_YELLOW
    /\ sensors[EAST]
    /\ duration[NORTH] = greenDuration

\* ---------------------------------------------------------------- C2
\* C2: a non-emergency call of controlLights in NS_YELLOW leaves EW_GREEN, and
\* one in EW_YELLOW leaves NS_GREEN.
C2_YellowToOppositeGreen ==
    [][(~emergencyMode /\ controlLights)
         => /\ NS_YELLOW => EW_GREEN'
            /\ EW_YELLOW => NS_GREEN']_vars

\* ---------------------------------------------------------------- C3
\* C3: with the emergency flag never set, calls recurring and the clock running
\* on, each of NS_GREEN, NS_YELLOW, EW_GREEN and EW_YELLOW is entered again and
\* again.
C3_CycleRunsForever ==
    /\ []<>NS_GREEN
    /\ []<>NS_YELLOW
    /\ []<>EW_GREEN
    /\ []<>EW_YELLOW

\* ---------------------------------------------------------------- C4
\* C4: North and South always have the same light state, and so have East and
\* West.
C4_AxesPaired ==
    /\ lights[NORTH] = lights[SOUTH]
    /\ lights[EAST] = lights[WEST]

\* Both NS lights have gone Yellow at this very second, ending a lengthened
\* green phase.
C4_Witness ==
    /\ NSState(YELLOW)
    /\ duration[NORTH] = greenDuration + 15
    /\ lastChange = now

\* ---------------------------------------------------------------- C5
\* C5 as claimed: in every reachable state, the one right after
\* initializeSystem included, exactly one axis is non-Red, or the emergency
\* flag is set with NS Green and EW Red.
C5_ExactlyOneAxisAlways ==
    ExactlyOneAxisNonRed \/ (emergencyMode /\ NS_GREEN)

\* C5 as amended: every call of controlLights leaves exactly one axis non-Red,
\* and no step takes that away again; only before the first call are all four
\* lights Red.
C5_ExactlyOneAxisOnceTicked ==
    [][(controlLights \/ ExactlyOneAxisNonRed) => ExactlyOneAxisNonRed']_vars

\* The first call has just been made, some seconds after the start, and has
\* left NS Green alone.
C5_Witness ==
    /\ NS_GREEN
    /\ ExactlyOneAxisNonRed
    /\ lastChange = now
    /\ now > 0
    /\ ~emergencyMode
    /\ ~emergencyObserved

C7_GreenToYellowNS ==
    [][(/\ NS_GREEN
        /\ ~emergencyMode
        /\ Elapsed >= duration[NORTH]
        /\ Elapsed >= duration[SOUTH]
        /\ controlLights)
         => /\ NSState(YELLOW)'
            /\ EWState(RED)'
            /\ lastChange' = now]_vars

\* NS went Yellow at this second, after a shortened green phase.
C7_Witness ==
    /\ NS_YELLOW
    /\ ~emergencyMode
    /\ duration[NORTH] = greenDuration - 10
    /\ lastChange = now
    /\ now >= greenDuration - 10

\* ---------------------------------------------------------------- C8
\* C8: a second call of controlLights at the same clock value, with the
\* emergency flag and the sensors as the first call left them, changes nothing.
C8_SecondCallNoChange ==
    [][controlLights
         => ControlLightsResult(lights', duration', lastChange', sensors',
                                emergencyMode', now')
              = ControlState(lights', duration', lastChange')]_vars

\* ---------------------------------------------------------------- C9
\* C9: a call of controlLights with emergencyMode set leaves North and South
\* Green and East and West Red whatever the lights and the elapsed time were,
\* and takes no timed transition: lastChange and the durations stay.
C9_EmergencyForcesNS ==
    [][(emergencyMode /\ controlLights)
         => /\ NS_GREEN'
            /\ lastChange' = lastChange
            /\ duration' = duration]_vars

\* The override has just run long after a green hold ran out.
C9_Witness ==
    /\ emergencyMode
    /\ emergencyObserved
    /\ NS_GREEN
    /\ duration[EAST] = greenDuration + 15
    /\ Elapsed > duration[EAST]

\* ---------------------------------------------------------------- C10
\* C10: the first call of controlLights after a call that saw emergencyMode set
\* and the flag's clearing leaves NS_GREEN with the durations computed from the
\* current sensors and lastChange set to the current time.
C10_ResumeAfterEmergency ==
    [][(emergencyObserved /\ ~emergencyMode /\ controlLights)
         => /\ NS_GREEN'
            /\ duration' = adjustTiming(sensors)
            /\ lastChange' = now]_vars

\* ---------------------------------------------------------------- C11
\* The reference policy of the claim: densities 3 * presence + 3 * presence per
\* axis, base + 15 and base - 10 on a margin of more than 4, base otherwise,
\* each clamped into [min, max].
Presence(sens, d) == IF sens[d] THEN 1 ELSE 0
ReferenceClamp(x) ==
    IF x < config.minGreenTime THEN config.minGreenTime
    ELSE IF x > config.maxGreenTime THEN config.maxGreenTime
    ELSE x
ReferenceDurations(sens) ==
    LET densityNS == 3 * Presence(sens, NORTH) + 3 * Presence(sens, SOUTH)
        densityEW == 3 * Presence(sens, EAST) + 3 * Presence(sens, WEST)
        base == config.greenDuration
        ns == IF densityNS > densityEW + 4 THEN base + 15
              ELSE IF densityEW > densityNS + 4 THEN base - 10
              ELSE base
        ew == IF densityNS > densityEW + 4 THEN base - 10
              ELSE IF densityEW > densityNS + 4 THEN base + 15
              ELSE base
    IN  (NORTH :> ReferenceClamp(ns)) @@ (SOUTH :> ReferenceClamp(ns))
          @@ (EAST :> ReferenceClamp(ew)) @@ (WEST :> ReferenceClamp(ew))

SnapshotNandE == (NORTH :> TRUE) @@ (SOUTH :> FALSE) @@ (EAST :> TRUE) @@ (WEST :> FALSE)
SnapshotNandS == (NORTH :> TRUE) @@ (SOUTH :> TRUE) @@ (EAST :> FALSE) @@ (WEST :> FALSE)

\* C11: for every sensor snapshot and every configuration with
\* 0 < min <= base <= max, a call of adjustTiming stores the durations of the
\* reference policy; presence (true,false,true,false) gives base for all four,
\* and presence (true,true,false,false) with base 30 gives NS 45 and EW 20
\* where the limits leave room for them.
C11_TimingIsReferencePolicy ==
    [][adjustTimingCall
         => /\ duration' = ReferenceDurations(sensors)
            /\ sensors = SnapshotNandE
                 => \A i \in Direction : duration'[i] = config.greenDuration
            /\ (/\ sensors = SnapshotNandS
                /\ config.greenDuration = 30
                /\ config.minGreenTime <= 20
                /\ config.maxGreenTime >= 45)
                 => /\ duration'[NORTH] = 45 /\ duration'[SOUTH] = 45
                    /\ duration'[EAST] = 20 /\ duration'[WEST] = 20]_vars

\* adjustTiming has stored 45 and 20 under a configuration of the caller's
\* whose limits are exactly those two values.
C11_Witness ==
    /\ sensors = SnapshotNandS
    /\ config.greenDuration = 30
    /\ config.minGreenTime = 20
    /\ config.maxGreenTime = 45
    /\ duration[NORTH] = 45
    /\ duration[EAST] = 20
    /\ lights = [i \in Direction |-> RED]

\* ---------------------------------------------------------------- C12
\* C12: every duration is 0 (none computed yet) or within
\* [minGreenTime, maxGreenTime], and the clamp stores a value equal to either
\* limit unchanged.
C12_DurationsWithinLimits ==
    /\ \A i \in Direction :
         \/ duration[i] = 0
         \/ config.minGreenTime <= duration[i] /\ duration[i] <= config.maxGreenTime
    /\ ClampDuration(config.minGreenTime) = config.minGreenTime
    /\ ClampDuration(config.maxGreenTime) = config.maxGreenTime

\* base + 15 is exactly the upper limit and is stored as it is; base - 10 is
\* below the lower limit and is stored as that limit.
C12_Witness ==
    /\ config.greenDuration + 15 = config.maxGreenTime
    /\ config.greenDuration - 10 < config.minGreenTime
    /\ duration[EAST] = config.maxGreenTime
    /\ duration[NORTH] = config.minGreenTime

\* ---------------------------------------------------------------- C13
\* C13: the durations change only in a call of controlLights that takes the
\* lights from no Green to Green in the normal cycle, every such call stores
\* what adjustTiming computes from the sensors, and nothing else (a green hold,
\* the switch to Yellow, a call that changes nothing, a sensor update) changes
\* a duration.
C13_TimingOnlyOnGreen ==
    [][/\ duration' # duration
            => /\ controlLights
               /\ ~emergencyMode
               /\ ActiveGreen(lights) = -1
               /\ ActiveGreen(lights') # -1
       /\ (controlLights /\ ~emergencyMode /\ ActiveGreen(lights) = -1)
            => duration' = adjustTiming(sensors)]_vars

\* Mid-hold, with the sensors now reading what would lengthen the NS phase, the
\* durations are still those computed when NS went Green.
C13_Witness ==
    /\ NS_GREEN
    /\ ~emergencyMode
    /\ 0 < Elapsed
    /\ Elapsed < duration[NORTH]
    /\ sensors = SnapshotNandS
    /\ duration = [i \in Direction |-> greenDuration]

\* ---------------------------------------------------------------- C14
\* C14: with sensorThread and the loop of main running together, the four
\* presence values one adjustTiming call reads all come from the same pass of
\* sensorThread over the four sensors, never some from the running pass and
\* the others from the pass before.
C14_ConsistentSnapshot == ~snapshotMixed

\* ---------------------------------------------------------------- C15
\* A sensor whose updateSensors call has set vehicleDetected and not yet
\* written detectionTime, which still holds an earlier second.
TornSensor(d) ==
    /\ sensorPc = "stamp"
    /\ sensorI = d
    /\ sensors[d]
    /\ detectionTime[d] # now

\* C15: there is no state in which main is about to call controlLights and a
\* sensor's vehicleDetected is already set by an updateSensors call whose
\* detectionTime write is still to come.
C15_SensorUpdateAtomic ==
    \A d \in Direction : ~(TornSensor(d) /\ mainPc = "control")

\* ---------------------------------------------------------------- C16
\* C16: with an axis Green, the emergency flag clear and elapsed below the
\* Green axis's duration, a call of controlLights changes nothing: lights,
\* durations, lastChange, sensors and the emergency flag stay.
C16_HoldIsNoOp ==
    [][(/\ NS_GREEN \/ EW_GREEN
        /\ ~emergencyMode
        /\ Elapsed < duration[ActiveGreen(lights)]
        /\ controlLights)
         => UNCHANGED <<lights, duration, lastChange, sensors, detectionTime,
                        emergencyMode, config>>]_vars

\* EW is Green some seconds into its hold: a call now leaves this state as it
\* is.
C16_Witness ==
    /\ EW_GREEN
    /\ ~emergencyMode
    /\ 0 < Elapsed
    /\ Elapsed < duration[EAST]
    /\ sensors[WEST]

\* ---------------------------------------------------------------- C17
\* C17: updateSensors(dir, detected) sets that direction's presence flag, writes
\* that direction's detectionTime when and only when detected is true, and
\* leaves the other three sensor records, the lights, the durations, the
\* configuration and the emergency flag as they were.
C17_UpdateSensorsFrame ==
    [][\A dir \in Direction, detected \in BOOLEAN :
         updateSensors(dir, detected)
           => /\ sensors'[dir] = detected
              /\ detected => detectionTime'[dir] = now
              /\ ~detected => detectionTime'[dir] = detectionTime[dir]
              /\ \A o \in Direction \ {dir} :
                   /\ sensors'[o] = sensors[o]
                   /\ detectionTime'[o] = detectionTime[o]
              /\ UNCHANGED <<lights, duration, config, emergencyMode>>]_vars

\* North was detected at second 1 and then read as absent at second 2: the
\* flag is down, the timestamp is still that of the detection.
C17_Witness ==
    /\ now = 2
    /\ ~sensors[NORTH]
    /\ detectionTime[NORTH] = 1
    /\ sensors[EAST]
    /\ detectionTime[EAST] = 2

\* ---------------------------------------------------------------- C18
\* C18: from the state initializeSystem leaves (all four lights Red, durations
\* 0, emergency flag clear) a call of controlLights goes straight to NS_GREEN,
\* with the durations adjustTiming computes from the sensors and lastChange
\* set to the time of the call.
C18_FirstCallToNSGreen ==
    [][(/\ lights = [i \in Direction |-> RED]
        /\ duration = [i \in Direction |-> 0]
        /\ ~emergencyMode
        /\ controlLights)
         => /\ NS_GREEN'
            /\ duration' = adjustTiming(sensors)
            /\ lastChange' = now]_vars

\* The first call came at second 3 with East and West both detected: NS is
\* Green with the shortened duration, and no phase before it has run.
C18_Witness ==
    /\ NS_GREEN
    /\ now = 3
    /\ lastChange = 3
    /\ duration[NORTH] = greenDuration - 10
    /\ duration[EAST] = greenDuration + 15
    /\ ~emergencyObserved

\* ---------------------------------------------------------------- C19
\* C19: a call of controlLights with emergencyMode set leaves the sensors'
\* presence flags and timestamps, the four durations, the configuration and
\* the emergency flag as they were.
C19_EmergencyFrame ==
    [][(emergencyMode /\ controlLights)
         => UNCHANGED <<sensors, detectionTime, duration, config, emergencyMode>>]_vars

\* The override has run with a detection on record and durations that the
\* sensors would by now compute differently.
C19_Witness ==
    /\ emergencyMode
    /\ emergencyObserved
    /\ NS_GREEN
    /\ sensors = SnapshotNandS
    /\ detectionTime[SOUTH] = 1
    /\ duration = [i \in Direction |-> greenDuration]

\* ---------------------------------------------------------------- C20
\* C20: in the loop of main, whenever emergencyMode is cleared again a call of
\* controlLights has seen it set, and the lights are North/South Green and
\* East/West Red.
C20_ActivationObserved ==
    [][mainEmergencyOff => (emergencyObserved /\ NS_GREEN)]_vars

====
